---- MODULE Spec2Model ----
(***************************************************************************)
(* Model of the Game of Life application (src/unnamed/part_000, the App    *)
(* component): the React state of the component, the memoized              *)
(* runSimulation closure, the timers it leaves pending and the event       *)
(* handlers of the buttons, inputs and cells.                              *)
(*                                                                         *)
(* Conventions of the model.                                               *)
(*  - A grid is a sequence of rows, a row a sequence of cells.  The code   *)
(*    indexes from 0, a TLA+ sequence from 1: cell (i, j) of the code is   *)
(*    g[i + 1][j + 1].  A cell is 0, 1 or `undefined' (the hole a write    *)
(*    past the end of a JavaScript array leaves behind).                   *)
(*  - A closure of runSimulation is the record of the values it captured   *)
(*    (its useCallback dependencies).  A pending setTimeout holds the      *)
(*    closure that was passed to it.                                       *)
(*  - A state update issued from a timer callback is not rendered within   *)
(*    the callback: it sits in updateQueue until React renders.  An event  *)
(*    handler reads the state of the last render and its updates are       *)
(*    rendered when the handler returns, behind the updates already        *)
(*    queued.  At every render runningRef.current is set to running.       *)
(*  - An exception thrown by an event handler aborts the handler (no       *)
(*    state is set); an exception thrown while rendering unmounts the      *)
(*    component (crashed).                                                 *)
(*  - Inputs are integers (the number inputs accept any typed number;      *)
(*    the range input of the speed only yields values of its range).       *)
(***************************************************************************)
EXTENDS Integers, Sequences, FiniteSets, Bags, TLC

VARIABLES
    numRows,          \* useState numRows
    numCols,          \* useState numCols
    grid,             \* useState grid
    running,          \* useState running
    runningRef,       \* runningRef.current
    surviveMin,       \* useState surviveMin
    surviveMax,       \* useState surviveMax
    birthNum,         \* useState birthNum
    simulationSpeed,  \* useState simulationSpeed
    timers,           \* bag of closures passed to setTimeout and not yet fired
    updateQueue,      \* closures whose setGrid updater is queued, not rendered
    crashed,          \* the component was unmounted by an error while rendering
    lastOp,           \* history: the handler or callback that ran last
    lastCmd,          \* history: the user event that was handled last
    prevCmd,          \* history: the user event handled before lastCmd
    nCmds,            \* history: how many user events were handled
    nTicks            \* history: how many timer callbacks issued a step

vars == <<numRows, numCols, grid, running, runningRef, surviveMin, surviveMax,
          birthNum, simulationSpeed, timers, updateQueue, crashed, lastOp, lastCmd,
          prevCmd, nCmds, nTicks>>

-----------------------------------------------------------------------------
(* Bounds of the model *)

\* user events (clicks and input changes) of one run of the model
MaxCmds == 3
\* timer callbacks that issue a step in one run of the model
MaxTicks == 3
\* pending setTimeout callbacks the model lets accumulate
MaxTimers == 2
\* setGrid updaters of timer callbacks the model lets wait for one render
MaxQueue == 1

\* values typed into the Height input
RowInputs == {0, 3, 5}
\* values typed into the Width input
ColInputs == {4, 5}
\* values typed into the surviveMin, surviveMax and birthRule inputs
SurviveMinInputs == {9}
SurviveMaxInputs == {1}
BirthInputs == {2}
\* values the speed slider is moved to
SpeedInputs == {30}
\* cells the user clicks (when they are rendered)
ClickCells == {<<2, 2>>}
\* cells whose Math.random() draw may exceed 0.7 in a handleRandom call
RandomCells == {<<1, 1>>}
\* dimensions the model starts from
InitDims == {5}

-----------------------------------------------------------------------------
(* Values *)

\* what reading a missing array element yields, and what a hole holds
undefined == -1
\* the result of adding undefined to a number
NaN == -2

interval == 120

-----------------------------------------------------------------------------
(* The grid and the rule engine *)

\* the empty grid with rows and columns exchanged
generateEmptyGridTransposed(rows, cols) ==
    [i \in 1..cols |-> [j \in 1..rows |-> 0]]

\* Array.from({ length: rows }, () => Array(cols).fill(0)); a negative or
\* zero length gives no rows
generateEmptyGrid(rows, cols) ==
    [i \in 1..rows |-> [j \in 1..cols |-> 0]]

\* Array(cols) throws a RangeError for a negative cols; it is called once per
\* row, so only when there is a row
generateEmptyGridThrows(rows, cols) == rows > 0 /\ cols < 0

\* the direction table with bottom-left mistyped as bottom-right
operationsBottomLeftLost ==
    << <<0, 1>>, <<0, -1>>, <<1, 1>>, <<-1, 1>>,
       <<1, 1>>, <<-1, -1>>, <<1, 0>>, <<-1, 0>> >>

operations ==
    << <<0, 1>>, <<0, -1>>, <<1, -1>>, <<-1, 1>>,
       <<1, 1>>, <<-1, -1>>, <<1, 0>>, <<-1, 0>> >>

\* the values a closure of runSimulation captured
Closure(rows, cols, sMin, sMax, birth, speed) ==
    [numRows |-> rows, numCols |-> cols, surviveMin |-> sMin,
     surviveMax |-> sMax, birthNum |-> birth, simulationSpeed |-> speed]

\* the boundary check of a closure c: it tests the captured dimensions
InBounds(c, newI, newJ) ==
    /\ newI >= 0
    /\ newI < c.numRows
    /\ newJ >= 0
    /\ newJ < c.numCols

\* g[newI][newJ] for an existing row: a column past the end reads undefined
ReadCell(g, newI, newJ) ==
    IF newJ + 1 \in DOMAIN g[newI + 1] THEN g[newI + 1][newJ + 1] ELSE undefined

\* neighbors += v
AddNeighbor(n, v) ==
    IF n = NaN \/ v = undefined THEN NaN ELSE n + v

\* the forEach over operations on a grid that wraps around: indices taken
\* modulo the dimensions instead of the boundary check
RECURSIVE CountFromWrapped(_, _, _, _, _)
CountFromWrapped(g, c, i, j, k) ==
    IF k > Len(operations) THEN 0
    ELSE LET newI == (i + operations[k][1]) % c.numRows
             newJ == (j + operations[k][2]) % c.numCols
         IN  AddNeighbor(CountFromWrapped(g, c, i, j, k + 1), ReadCell(g, newI, newJ))

\* the forEach over operations, from the k-th direction on, for cell (i, j)
RECURSIVE CountFrom(_, _, _, _, _)
CountFrom(g, c, i, j, k) ==
    IF k > Len(operations) THEN 0
    ELSE LET newI == i + operations[k][1]
             newJ == j + operations[k][2]
             rest == CountFrom(g, c, i, j, k + 1)
         IN  IF InBounds(c, newI, newJ)
             THEN AddNeighbor(rest, ReadCell(g, newI, newJ))
             ELSE rest

neighbors(g, c, i, j) == CountFrom(g, c, i, j, 1)

\* the cell callback with a live cell dying at surviveMin neighbours already
nextCellSurviveExclusive(cell, n, c) ==
    IF cell = 1 /\ n # NaN /\ (n <= c.surviveMin \/ n > c.surviveMax) THEN 0
    ELSE IF cell = 0 /\ n # NaN /\ n = c.birthNum THEN 1
    ELSE cell

\* the cell callback with a dead cell born at birthNum neighbours or more
nextCellBirthAtLeast(cell, n, c) ==
    IF cell = 1 /\ n # NaN /\ (n < c.surviveMin \/ n > c.surviveMax) THEN 0
    ELSE IF cell = 0 /\ n # NaN /\ n >= c.birthNum THEN 1
    ELSE cell

\* the cell callback with "neighbors === birthNum" guarded by a truthy
\* neighbour count
nextCellBirthNeedsNeighbour(cell, n, c) ==
    IF cell = 1 /\ n # NaN /\ (n < c.surviveMin \/ n > c.surviveMax) THEN 0
    ELSE IF cell = 0 /\ n # NaN /\ n # 0 /\ n = c.birthNum THEN 1
    ELSE cell

\* the three return statements of the cell callback; a comparison with NaN
\* is false
nextCell(cell, n, c) ==
    IF cell = 1 /\ n # NaN /\ (n < c.surviveMin \/ n > c.surviveMax) THEN 0
    ELSE IF cell = 0 /\ n # NaN /\ n = c.birthNum THEN 1
    ELSE cell

\* g[newI][newJ] throws a TypeError when the closure's bounds admit a row
\* the grid does not have; map calls the callback for every cell that is
\* not a hole
updaterThrows(g, c) ==
    \E i \in 0..(Len(g) - 1) :
      \E j \in 0..(Len(g[i + 1]) - 1) :
        /\ g[i + 1][j + 1] # undefined
        /\ \E k \in DOMAIN operations :
              /\ InBounds(c, i + operations[k][1], j + operations[k][2])
              /\ i + operations[k][1] >= Len(g)

\* the updater passed to setGrid by the closure c: g.map(row => row.map(..));
\* map keeps the shape of g and its holes
updater(g, c) ==
    [r \in DOMAIN g |->
        [q \in DOMAIN g[r] |->
            IF g[r][q] = undefined THEN undefined
            ELSE nextCell(g[r][q], neighbors(g, c, r - 1, q - 1), c)]]

\* the queued updaters, applied in the order they were queued
RECURSIVE applyUpdates(_, _)
applyUpdates(g, q) ==
    IF q = <<>> THEN g ELSE applyUpdates(updater(g, Head(q)), Tail(q))

RECURSIVE updatesThrow(_, _)
updatesThrow(g, q) ==
    IF q = <<>> THEN FALSE
    ELSE updaterThrows(g, Head(q)) \/ updatesThrow(updater(g, Head(q)), Tail(q))

-----------------------------------------------------------------------------
(* Pattern generators *)

\* newGrid[r][c] = 1 on an existing row: a write past the end of the row
\* lengthens it and leaves holes; a negative c sets no element
writeCell(g, r, c) ==
    IF c < 0 THEN g
    ELSE [g EXCEPT ![r + 1] =
            [q \in 1..(IF c + 1 > Len(@) THEN c + 1 ELSE Len(@)) |->
                IF q = c + 1 THEN 1
                ELSE IF q <= Len(@) THEN @[q]
                ELSE undefined]]

\* the writes of a pattern, in order, from the k-th on
RECURSIVE writeCells(_, _, _, _, _)
writeCells(g, cells, centerRow, centerCol, k) ==
    IF k > Len(cells) THEN g
    ELSE writeCells(writeCell(g, centerRow + cells[k][1], centerCol + cells[k][2]),
                    cells, centerRow, centerCol, k + 1)

\* newGrid[r] is undefined for one of the writes: a TypeError
writesThrow(g, cells, centerRow) ==
    \E k \in DOMAIN cells : (centerRow + cells[k][1] + 1) \notin DOMAIN g

\* the five writes of createGlider, as offsets from the centre
gliderCells == << <<0, 1>>, <<1, 2>>, <<2, 0>>, <<2, 1>>, <<2, 2>> >>

\* the three writes of createOscillator
oscillatorCells == << <<-1, 0>>, <<0, 0>>, <<1, 0>> >>

\* Math.floor(n / 2)
center(n) == n \div 2

\* the rows built by handleRandom when the draws above 0.7 are those of the
\* cells in alive
randomRows(rows, cols, alive) ==
    [i \in 1..rows |-> [j \in 1..cols |->
        IF <<i - 1, j - 1>> \in alive THEN 1 ELSE 0]]

\* handleCellClick's map with the column test "colIdx === j" left out
clickedGridWholeRow(g, i, j) ==
    [r \in DOMAIN g |->
        [q \in DOMAIN g[r] |->
            IF g[r][q] = undefined THEN undefined
            ELSE IF r - 1 = i
                 THEN (IF g[r][q] # 0 THEN 0 ELSE 1)
                 ELSE g[r][q]]]

\* the grid.map of handleCellClick
clickedGrid(g, i, j) ==
    [r \in DOMAIN g |->
        [q \in DOMAIN g[r] |->
            IF g[r][q] = undefined THEN undefined
            ELSE IF r - 1 = i /\ q - 1 = j
                 THEN (IF g[r][q] # 0 THEN 0 ELSE 1)
                 ELSE g[r][q]]]

\* the cells the render draws: one div per cell that is not a hole
rendered(g, i, j) ==
    /\ i + 1 \in DOMAIN g
    /\ j + 1 \in DOMAIN g[i + 1]
    /\ g[i + 1][j + 1] # undefined

-----------------------------------------------------------------------------
(* The component *)

\* the memoized runSimulation of the last render: every value it reads is
\* one of its dependencies, so it holds the values of that render
runSimulation ==
    Closure(numRows, numCols, surviveMin, surviveMax, birthNum, simulationSpeed)

\* The component is constructed with a 30 x 50 grid; the model starts in the
\* state handleResize leaves behind when the Height and Width inputs were
\* set to InitDims (5 is the smallest value their min attribute names):
\* an empty grid, stopped, the default rules, no timer
Init ==
    /\ numRows \in InitDims
    /\ numCols \in InitDims
    /\ grid = generateEmptyGrid(numRows, numCols)
    /\ running = FALSE
    /\ runningRef = FALSE
    /\ surviveMin = 2
    /\ surviveMax = 3
    /\ birthNum = 3
    /\ simulationSpeed = interval
    /\ timers = EmptyBag
    /\ updateQueue = <<>>
    /\ crashed = FALSE
    /\ lastOp = "init"
    /\ lastCmd = "none"
    /\ prevCmd = "none"
    /\ nCmds = 0
    /\ nTicks = 0

\* a click or an input change reaches its handler while the component is
\* mounted
UserEvent(name) ==
    /\ ~crashed
    /\ nCmds < MaxCmds
    /\ nCmds' = nCmds + 1
    /\ lastCmd' = name
    /\ prevCmd' = lastCmd
    /\ UNCHANGED nTicks

\* an error thrown while rendering: the component is unmounted and no state
\* of the render is committed
Crash ==
    /\ crashed' = TRUE
    /\ UNCHANGED <<numRows, numCols, grid, running, runningRef, surviveMin,
                   surviveMax, birthNum, simulationSpeed, timers, updateQueue>>

\* the render that follows an event handler which set the grid to the value
\* v (or did not set it: byValue = FALSE)
RenderGrid(byValue, v) ==
    /\ grid' = IF byValue THEN v ELSE applyUpdates(grid, updateQueue)
    /\ updateQueue' = <<>>
    /\ crashed' = FALSE

\* runSimulation without its "if (!runningRef.current) return"
TickUnguarded(c) ==
    /\ BagIn(c, timers)
    /\ Len(updateQueue) < MaxQueue
    /\ nTicks < MaxTicks
    /\ nTicks' = nTicks + 1
    /\ updateQueue' = IF crashed THEN updateQueue ELSE Append(updateQueue, c)
    /\ timers' = timers
    /\ lastOp' = "tick"
    /\ UNCHANGED <<numRows, numCols, grid, running, runningRef, surviveMin,
                   surviveMax, birthNum, simulationSpeed, crashed, lastCmd, prevCmd,
                   nCmds>>

\* runSimulation re-arming its timer before the runningRef test
TickKeepsTimer(c) ==
    /\ BagIn(c, timers)
    /\ IF ~runningRef
       THEN /\ timers' = timers
            /\ lastOp' = "tickReturn"
            /\ UNCHANGED <<updateQueue, nTicks>>
       ELSE /\ Len(updateQueue) < MaxQueue
            /\ nTicks < MaxTicks
            /\ nTicks' = nTicks + 1
            /\ updateQueue' = IF crashed THEN updateQueue ELSE Append(updateQueue, c)
            /\ timers' = timers
            /\ lastOp' = "tick"
    /\ UNCHANGED <<numRows, numCols, grid, running, runningRef, surviveMin,
                   surviveMax, birthNum, simulationSpeed, crashed, lastCmd, prevCmd,
                   nCmds>>

\* the body of runSimulation, run by a timer that holds the closure c
Tick(c) ==
    /\ BagIn(c, timers)
    /\ IF ~runningRef
       THEN /\ timers' = timers (-) SetToBag({c})
            /\ lastOp' = "tickReturn"
            /\ UNCHANGED <<updateQueue, nTicks>>
       ELSE /\ Len(updateQueue) < MaxQueue
            /\ nTicks < MaxTicks
            /\ nTicks' = nTicks + 1
            /\ updateQueue' = IF crashed THEN updateQueue ELSE Append(updateQueue, c)
            /\ timers' = timers
            /\ lastOp' = "tick"
    /\ UNCHANGED <<numRows, numCols, grid, running, runningRef, surviveMin,
                   surviveMax, birthNum, simulationSpeed, crashed, lastCmd, prevCmd,
                   nCmds>>

\* React renders the updates queued by timer callbacks
Render ==
    /\ ~crashed
    /\ UNCHANGED <<lastCmd, prevCmd, nCmds, nTicks>>
    /\ updateQueue # <<>>
    /\ lastOp' = "render"
    /\ IF updatesThrow(grid, updateQueue) THEN Crash
       ELSE /\ RenderGrid(FALSE, grid)
            /\ runningRef' = running
            /\ UNCHANGED <<numRows, numCols, running, surviveMin, surviveMax,
                           birthNum, simulationSpeed, timers>>

\* Start arming the timer without calling runSimulation's step first
StartWithoutFirstTick ==
    /\ UserEvent("start")
    /\ ~running
    /\ BagCardinality(timers) < MaxTimers
    /\ lastOp' = "start"
    /\ IF updatesThrow(grid, updateQueue) THEN Crash
       ELSE /\ grid' = applyUpdates(grid, updateQueue)
            /\ updateQueue' = <<>>
            /\ crashed' = FALSE
            /\ timers' = timers (+) SetToBag({runSimulation})
            /\ running' = TRUE
            /\ runningRef' = TRUE
            /\ UNCHANGED <<numRows, numCols, surviveMin, surviveMax, birthNum,
                           simulationSpeed>>

\* the Start/Pause button, pressed while stopped
Start ==
    /\ UserEvent("start")
    /\ ~running
    /\ BagCardinality(timers) < MaxTimers
    /\ lastOp' = "start"
    /\ IF updatesThrow(grid, Append(updateQueue, runSimulation)) THEN Crash
       ELSE /\ grid' = applyUpdates(grid, Append(updateQueue, runSimulation))
            /\ updateQueue' = <<>>
            /\ crashed' = FALSE
            /\ timers' = timers (+) SetToBag({runSimulation})
            /\ running' = TRUE
            /\ runningRef' = TRUE
            /\ UNCHANGED <<numRows, numCols, surviveMin, surviveMax, birthNum,
                           simulationSpeed>>

\* Pause with the render leaving runningRef.current as it was
PauseRefNotSynced ==
    /\ UserEvent("pause")
    /\ running
    /\ lastOp' = "pause"
    /\ IF updatesThrow(grid, updateQueue) THEN Crash
       ELSE /\ RenderGrid(FALSE, grid)
            /\ running' = FALSE
            /\ UNCHANGED <<numRows, numCols, runningRef, surviveMin, surviveMax,
                           birthNum, simulationSpeed, timers>>

\* the Start/Pause button, pressed while running
Pause ==
    /\ UserEvent("pause")
    /\ running
    /\ lastOp' = "pause"
    /\ IF updatesThrow(grid, updateQueue) THEN Crash
       ELSE /\ RenderGrid(FALSE, grid)
            /\ running' = FALSE
            /\ runningRef' = FALSE
            /\ UNCHANGED <<numRows, numCols, surviveMin, surviveMax, birthNum,
                           simulationSpeed, timers>>

handleCellClick(i, j) ==
    /\ UserEvent("handleCellClick")
    /\ rendered(grid, i, j)
    /\ lastOp' = "handleCellClick"
    /\ IF updatesThrow(grid, updateQueue) THEN Crash
       ELSE /\ RenderGrid(TRUE, clickedGrid(grid, i, j))
            /\ runningRef' = running
            /\ UNCHANGED <<numRows, numCols, running, surviveMin, surviveMax,
                           birthNum, simulationSpeed, timers>>

\* handleClear without its setRunning(false)
handleClearKeepsRunning ==
    /\ UserEvent("handleClear")
    /\ lastOp' = "handleClear"
    /\ IF updatesThrow(grid, updateQueue) THEN Crash
       ELSE /\ RenderGrid(TRUE, generateEmptyGrid(numRows, numCols))
            /\ runningRef' = running
            /\ UNCHANGED <<numRows, numCols, running, surviveMin, surviveMax,
                           birthNum, simulationSpeed, timers>>

handleClear ==
    /\ UserEvent("handleClear")
    /\ IF generateEmptyGridThrows(numRows, numCols)
       THEN /\ lastOp' = "handleClearThrew"
            /\ UNCHANGED <<numRows, numCols, grid, running, runningRef, surviveMin,
                           surviveMax, birthNum, simulationSpeed, timers,
                           updateQueue, crashed>>
       ELSE /\ lastOp' = "handleClear"
            /\ IF updatesThrow(grid, updateQueue) THEN Crash
               ELSE /\ RenderGrid(TRUE, generateEmptyGrid(numRows, numCols))
                    /\ running' = FALSE
                    /\ runningRef' = FALSE
                    /\ UNCHANGED <<numRows, numCols, surviveMin, surviveMax,
                                   birthNum, simulationSpeed, timers>>

\* handleRandom with the setRunning(false) of handleClear
handleRandomStops(alive) ==
    /\ UserEvent("handleRandom")
    /\ lastOp' = "handleRandom"
    /\ IF updatesThrow(grid, updateQueue) THEN Crash
       ELSE /\ RenderGrid(TRUE, randomRows(numRows, numCols, alive))
            /\ running' = FALSE
            /\ runningRef' = FALSE
            /\ UNCHANGED <<numRows, numCols, surviveMin, surviveMax,
                           birthNum, simulationSpeed, timers>>

handleRandom(alive) ==
    /\ UserEvent("handleRandom")
    /\ lastOp' = "handleRandom"
    /\ IF updatesThrow(grid, updateQueue) THEN Crash
       ELSE /\ RenderGrid(TRUE, randomRows(numRows, numCols, alive))
            /\ runningRef' = running
            /\ UNCHANGED <<numRows, numCols, running, surviveMin, surviveMax,
                           birthNum, simulationSpeed, timers>>

\* createGlider and createOscillator: the pattern cells written into an
\* empty grid around the centre
createPattern(name, cells) ==
    /\ UserEvent(name)
    /\ IF \/ generateEmptyGridThrows(numRows, numCols)
          \/ writesThrow(generateEmptyGrid(numRows, numCols), cells, center(numRows))
       THEN /\ lastOp' = name \o "Threw"
            /\ UNCHANGED <<numRows, numCols, grid, running, runningRef, surviveMin,
                           surviveMax, birthNum, simulationSpeed, timers,
                           updateQueue, crashed>>
       ELSE /\ lastOp' = name
            /\ IF updatesThrow(grid, updateQueue) THEN Crash
               ELSE /\ RenderGrid(TRUE, writeCells(generateEmptyGrid(numRows, numCols),
                                        cells, center(numRows), center(numCols), 1))
                    /\ runningRef' = running
                    /\ UNCHANGED <<numRows, numCols, running, surviveMin, surviveMax,
                                   birthNum, simulationSpeed, timers>>

createGlider == createPattern("createGlider", gliderCells)

createOscillator == createPattern("createOscillator", oscillatorCells)

\* handleResize without its setGrid
handleResizeKeepsGrid(rows, cols) ==
    /\ UserEvent("handleResize")
    /\ lastOp' = "handleResize"
    /\ IF updatesThrow(grid, updateQueue) THEN Crash
       ELSE /\ RenderGrid(FALSE, grid)
            /\ numRows' = rows
            /\ numCols' = cols
            /\ running' = FALSE
            /\ runningRef' = FALSE
            /\ UNCHANGED <<surviveMin, surviveMax, birthNum,
                           simulationSpeed, timers>>

handleResize(rows, cols) ==
    /\ UserEvent("handleResize")
    /\ IF generateEmptyGridThrows(rows, cols)
       THEN /\ lastOp' = "handleResizeThrew"
            /\ UNCHANGED <<numRows, numCols, grid, running, runningRef, surviveMin,
                           surviveMax, birthNum, simulationSpeed, timers,
                           updateQueue, crashed>>
       ELSE /\ lastOp' = "handleResize"
            /\ IF updatesThrow(grid, updateQueue) THEN Crash
               ELSE /\ RenderGrid(TRUE, generateEmptyGrid(rows, cols))
                    /\ numRows' = rows
                    /\ numCols' = cols
                    /\ running' = FALSE
                    /\ runningRef' = FALSE
                    /\ UNCHANGED <<surviveMin, surviveMax, birthNum,
                                   simulationSpeed, timers>>

\* the onChange of the surviveMin input
setSurviveMin(n) ==
    /\ UserEvent("setSurviveMin")
    /\ lastOp' = "setSurviveMin"
    /\ IF updatesThrow(grid, updateQueue) THEN Crash
       ELSE /\ RenderGrid(FALSE, grid)
            /\ surviveMin' = n
            /\ runningRef' = running
            /\ UNCHANGED <<numRows, numCols, running, surviveMax, birthNum,
                           simulationSpeed, timers>>

\* the onChange of the surviveMax input
setSurviveMax(n) ==
    /\ UserEvent("setSurviveMax")
    /\ lastOp' = "setSurviveMax"
    /\ IF updatesThrow(grid, updateQueue) THEN Crash
       ELSE /\ RenderGrid(FALSE, grid)
            /\ surviveMax' = n
            /\ runningRef' = running
            /\ UNCHANGED <<numRows, numCols, running, surviveMin, birthNum,
                           simulationSpeed, timers>>

\* the onChange of the birthRule input
setBirthNum(n) ==
    /\ UserEvent("setBirthNum")
    /\ lastOp' = "setBirthNum"
    /\ IF updatesThrow(grid, updateQueue) THEN Crash
       ELSE /\ RenderGrid(FALSE, grid)
            /\ birthNum' = n
            /\ runningRef' = running
            /\ UNCHANGED <<numRows, numCols, running, surviveMin, surviveMax,
                           simulationSpeed, timers>>

\* the onChange of the simulationSpeed slider
setSimulationSpeed(ms) ==
    /\ UserEvent("setSimulationSpeed")
    /\ lastOp' = "setSimulationSpeed"
    /\ IF updatesThrow(grid, updateQueue) THEN Crash
       ELSE /\ RenderGrid(FALSE, grid)
            /\ simulationSpeed' = ms
            /\ runningRef' = running
            /\ UNCHANGED <<numRows, numCols, running, surviveMin, surviveMax,
                           birthNum, timers>>

Next ==
    \/ \E c \in BagToSet(timers) : Tick(c)
    \/ Render
    \/ Start
    \/ Pause
    \/ \E cell \in ClickCells : handleCellClick(cell[1], cell[2])
    \/ handleClear
    \/ \E alive \in SUBSET RandomCells : handleRandom(alive)
    \/ createGlider
    \/ createOscillator
    \/ \E rows \in RowInputs : handleResize(rows, numCols)
    \/ \E cols \in ColInputs : handleResize(numRows, cols)
    \/ \E n \in SurviveMinInputs : setSurviveMin(n)
    \/ \E n \in SurviveMaxInputs : setSurviveMax(n)
    \/ \E n \in BirthInputs : setBirthNum(n)
    \/ \E ms \in SpeedInputs : setSimulationSpeed(ms)

Spec == Init /\ [][Next]_vars

-----------------------------------------------------------------------------
(* The rule engine on its own: any well-formed grid of small dimensions and *)
(* a rule triple of [0,8], started and ticked with no other command        *)

\* dimensions and rule values of the grids the rule engine is checked on
StepDims == {1, 2, 3}
StepSurviveMins == {0, 2, 4}
StepSurviveMaxs == {3, 8}
StepBirths == {0, 3}

InitStep ==
    /\ numRows \in StepDims
    /\ numCols \in StepDims
    /\ grid \in [1..numRows -> [1..numCols -> {0, 1}]]
    /\ running = FALSE
    /\ runningRef = FALSE
    /\ surviveMin \in StepSurviveMins
    /\ surviveMax \in StepSurviveMaxs
    /\ birthNum \in StepBirths
    /\ simulationSpeed = interval
    /\ timers = EmptyBag
    /\ updateQueue = <<>>
    /\ crashed = FALSE
    /\ lastOp = "init"
    /\ lastCmd = "none"
    /\ prevCmd = "none"
    /\ nCmds = 0
    /\ nTicks = 0

NextStep ==
    \/ \E c \in BagToSet(timers) : Tick(c)
    \/ Render
    \/ Start
    \/ Pause

StepSpec == InitStep /\ [][NextStep]_vars

-----------------------------------------------------------------------------
(* The pattern generators under the default rules: an empty grid of some   *)
(* dimensions, seeded with a glider or a blinker and run                   *)

\* heights and widths of the grids the patterns are seeded on: too small
\* for the glider (3), the smallest the inputs name (5), 7 and 8
PatternDims == {3, 5, 7, 8}

InitPattern ==
    /\ numRows \in PatternDims
    /\ numCols \in PatternDims
    /\ grid = generateEmptyGrid(numRows, numCols)
    /\ running = FALSE
    /\ runningRef = FALSE
    /\ surviveMin = 2
    /\ surviveMax = 3
    /\ birthNum = 3
    /\ simulationSpeed = interval
    /\ timers = EmptyBag
    /\ updateQueue = <<>>
    /\ crashed = FALSE
    /\ lastOp = "init"
    /\ lastCmd = "none"
    /\ prevCmd = "none"
    /\ nCmds = 0
    /\ nTicks = 0

NextPattern ==
    \/ \E c \in BagToSet(timers) : Tick(c)
    \/ Render
    \/ Start
    \/ Pause
    \/ createGlider
    \/ createOscillator

PatternSpec == InitPattern /\ [][NextPattern]_vars

-----------------------------------------------------------------------------
(* Claims *)

\* the eight Moore offsets
Moore == ((-1..1) \X (-1..1)) \ {<<0, 0>>}

\* the live cells among the in-bounds Moore neighbours of (i, j) in g
LiveNeighbours(g, i, j) ==
    Cardinality({d \in Moore :
        /\ i + d[1] >= 0 /\ i + d[1] < numRows
        /\ j + d[2] >= 0 /\ j + d[2] < numCols
        /\ g[i + d[1] + 1][j + d[2] + 1] = 1})

\* the grid one tick is to produce from g under the current rule triple
RuleStep(g) ==
    [r \in 1..numRows |-> [q \in 1..numCols |->
        LET n == LiveNeighbours(g, r - 1, q - 1)
        IN  IF g[r][q] = 1 /\ (n < surviveMin \/ n > surviveMax) THEN 0
            ELSE IF g[r][q] = 0 /\ n = birthNum THEN 1
            ELSE g[r][q]]]

RECURSIVE RuleSteps(_, _)
RuleSteps(g, k) == IF k = 0 THEN g ELSE RuleSteps(RuleStep(g), k - 1)

\* C1: one tick replaces the grid by the grid in which every cell follows
\* the survive/birth rule on the count of its live in-bounds Moore
\* neighbours in the pre-step grid: the step run by Start, and each step
\* issued by a timer callback and applied at the next render.
C1_TickAppliesRule ==
    [][/\ (lastOp' = "start" => grid' = RuleSteps(grid, Len(updateQueue) + 1))
       /\ (lastOp' = "render" => grid' = RuleSteps(grid, Len(updateQueue)))
       /\ (lastOp' \in {"tick", "tickReturn", "pause"} /\ updateQueue = <<>>
              => grid' = grid)]_vars

\* a 3 x 3 grid on which a timer's step was rendered, with live and dead cells
C1_Witness ==
    /\ lastOp = "render"
    /\ nTicks >= 2
    /\ numRows = 3 /\ numCols = 3
    /\ surviveMin = 2 /\ surviveMax = 3 /\ birthNum = 3
    /\ \E r \in 1..3, q \in 1..3 : grid[r][q] = 1
    /\ \E r \in 1..3, q \in 1..3 : grid[r][q] = 0

-----------------------------------------------------------------------------

\* a pending timer fires
TimerFires == \E c \in BagToSet(timers) : Tick(c)

\* some cell of the grid is alive
SomeAlive(g) == \E r \in DOMAIN g : \E q \in DOMAIN g[r] : g[r][q] = 1

\* C2: when pause was the last command, a timer armed before it that fires
\* afterwards issues no step and leaves the grid as it was at the pause; it
\* is dropped without re-arming itself.
C2_PausedTickAppliesNoStep ==
    [][(lastCmd = "pause" /\ ~crashed /\ TimerFires)
          => /\ grid' = grid
             /\ updateQueue' = updateQueue
             /\ BagCardinality(timers') = BagCardinality(timers) - 1]_vars

\* a run was paused on a grid with live cells and its pending timer has fired
C2_Witness ==
    /\ lastCmd = "pause"
    /\ lastOp = "tickReturn"
    /\ ~crashed
    /\ timers = EmptyBag
    /\ SomeAlive(grid)

\* C3: every step a timer callback issues evaluates the grid with the
\* current surviveMin, surviveMax and birthNum (stated for rule values of
\* [0,8]).
C3_TicksUseCurrentRules ==
    (~crashed /\ {surviveMin, surviveMax, birthNum} \subseteq 0..8) =>
        \A k \in DOMAIN updateQueue :
            /\ updateQueue[k].surviveMin = surviveMin
            /\ updateQueue[k].surviveMax = surviveMax
            /\ updateQueue[k].birthNum = birthNum

PatternGrid(cells) ==
    writeCells(generateEmptyGrid(numRows, numCols), cells,
               center(numRows), center(numCols), 1)

C5_PauseCancelsPendingTick ==
    lastOp = "pause" => timers = EmptyBag

\* the commands that set the grid directly
GridCommands ==
    {"handleCellClick", "handleClear", "handleRandom", "createGlider",
     "createOscillator", "handleResize"}

\* C6: the component starts stopped, a timer that fires while stopped
\* issues no step, and between two stopped states the grid changes only by
\* a command that sets it (click, clear, random, seed, resize).
C6_StepOnlyWhileRunning ==
    /\ (lastOp = "init" => ~running /\ ~runningRef /\ timers = EmptyBag)
    /\ [][/\ (~running /\ TimerFires
                => grid' = grid /\ updateQueue' = updateQueue)
          /\ (~running /\ ~running' /\ grid' # grid
                => lastOp' \in GridCommands)]_vars

\* a timer fired after clear had stopped a run
C6_Witness ==
    /\ lastCmd = "handleClear"
    /\ lastOp = "tickReturn"
    /\ ~running
    /\ ~crashed

\* C7: every step a timer callback issues evaluates the grid with the
\* current numRows and numCols.
C7_TicksUseCurrentDims ==
    (~crashed /\ Len(grid) > 0) =>
        \A k \in DOMAIN updateQueue :
            /\ updateQueue[k].numRows = numRows
            /\ updateQueue[k].numCols = numCols


\* the most in-bounds Moore neighbours cell (i, j) can have: 3 in a corner,
\* 5 on an edge, 8 inside
MostNeighbours(i, j) ==
    LET onRowEdge == i = 0 \/ i = numRows - 1
        onColEdge == j = 0 \/ j = numCols - 1
    IN  IF onRowEdge /\ onColEdge THEN 3
        ELSE IF onRowEdge \/ onColEdge THEN 5
        ELSE 8

\* g with every cell that is not (i, j) or one of its Moore neighbours
\* inverted
FarCellsInverted(g, i, j) ==
    [r \in DOMAIN g |-> [q \in DOMAIN g[r] |->
        IF r - 1 \in (i - 1)..(i + 1) /\ q - 1 \in (j - 1)..(j + 1)
        THEN g[r][q] ELSE 1 - g[r][q]]]

\* C8: the grid does not wrap.  In the step run by Start every cell counts
\* at most 3 live neighbours in a corner and 5 on an edge, and its next
\* state is the one the rule gives when all cells farther than one step
\* away (the opposite edges among them) are inverted.
C8_NoWrap ==
    [][lastOp' = "start" =>
        \A i \in 0..(numRows - 1), j \in 0..(numCols - 1) :
            /\ neighbors(grid, runSimulation, i, j) <= MostNeighbours(i, j)
            /\ grid'[i + 1][j + 1] =
                  nextCell(grid[i + 1][j + 1],
                           neighbors(FarCellsInverted(grid, i, j), runSimulation, i, j),
                           runSimulation)]_vars

\* under survive 2..3 a step left exactly the four corners of a 3 x 3 grid
\* alive: each counted its 3 neighbours of the all-alive grid
C8_Witness ==
    /\ lastOp = "start"
    /\ surviveMin = 2 /\ surviveMax = 3 /\ birthNum = 3
    /\ grid = << <<1, 0, 1>>, <<0, 0, 0>>, <<1, 0, 1>> >>

\* C9: the grid has exactly numRows rows of exactly numCols cells, each 0
\* or 1.
C9_GridWellFormed ==
    ~crashed =>
        /\ Len(grid) = numRows
        /\ \A r \in DOMAIN grid :
              /\ Len(grid[r]) = numCols
              /\ \A q \in DOMAIN grid[r] : grid[r][q] \in {0, 1}

\* C10: surviveMin, surviveMax and birthNum are in [0,8].
C10_RulesInRange ==
    /\ surviveMin \in 0..8
    /\ surviveMax \in 0..8
    /\ birthNum \in 0..8


\* C11: numRows and numCols are positive in every state.
C11_DimsPositive ==
    numRows > 0 /\ numCols > 0

\* g has exactly rows rows of exactly cols cells, each 0 or 1
WellFormed(g, rows, cols) ==
    /\ Len(g) = rows
    /\ \A r \in DOMAIN g :
          /\ Len(g[r]) = cols
          /\ \A q \in DOMAIN g[r] : g[r][q] \in {0, 1}

\* C12: seeding a glider or a blinker never fails and leaves a grid of
\* exactly numRows x numCols cells, whatever the (positive) dimensions.
C12_SeedFitsOrIsRejected ==
    (~crashed /\ numRows > 0 /\ numCols > 0) =>
        /\ lastOp \notin {"createGliderThrew", "createOscillatorThrew"}
        /\ (lastOp \in {"createGlider", "createOscillator"}
               => WellFormed(grid, numRows, numCols))

\* every cell of g is dead
AllDead(g) == \A r \in DOMAIN g : \A q \in DOMAIN g[r] : g[r][q] = 0

\* C13: handleResize with positive rows and cols sets the dimensions to
\* the requested ones and the grid to rows x cols dead cells, whatever the
\* grid and the dimensions were before.
C13_ResizeYieldsEmptyGrid ==
    [][\A rows \in RowInputs \cup {numRows}, cols \in ColInputs \cup {numCols} :
          (rows > 0 /\ cols > 0 /\ ~crashed' /\ handleResize(rows, cols))
             => /\ numRows' = rows
                /\ numCols' = cols
                /\ WellFormed(grid', rows, cols)
                /\ AllDead(grid')]_vars

\* the grid was resized twice in a row, to 3 x 4 in the end
C13_Witness ==
    /\ lastOp = "handleResize"
    /\ prevCmd = "handleResize"
    /\ numRows = 3
    /\ numCols = 4
    /\ ~crashed

\* the state of the component (without the history variables)
AppState ==
    <<numRows, numCols, grid, running, runningRef, surviveMin, surviveMax,
      birthNum, simulationSpeed, timers, updateQueue, crashed>>

\* C14: clear leaves the all-dead grid of the current dimensions, stopped,
\* with dimensions and rule parameters as they were; a clear that follows
\* a clear (timers may have fired in between) changes nothing.
C14_ClearIdempotent ==
    [][(lastOp' = "handleClear" /\ ~crashed')
          => /\ WellFormed(grid', numRows, numCols)
             /\ AllDead(grid')
             /\ ~running'
             /\ <<numRows', numCols', surviveMin', surviveMax', birthNum'>>
                   = <<numRows, numCols, surviveMin, surviveMax, birthNum>>
             /\ (lastCmd = "handleClear" => AppState' = AppState)]_vars

\* clear was pressed twice in a row on a run whose timer is still pending
C14_Witness ==
    /\ lastOp = "handleClear"
    /\ prevCmd = "handleClear"
    /\ nCmds = 3
    /\ timers # EmptyBag
    /\ ~crashed

\* the offsets of the glider and of the blinker from the centre
GliderOffsets == {<<0, 1>>, <<1, 2>>, <<2, 0>>, <<2, 1>>, <<2, 2>>}
BlinkerOffsets == {<<-1, 0>>, <<0, 0>>, <<1, 0>>}

\* the numRows x numCols grid whose live cells are exactly those at the
\* offsets, shifted by (di, dj), from (floor(numRows/2), floor(numCols/2))
PatternAt(offsets, di, dj) ==
    [r \in 1..numRows |-> [q \in 1..numCols |->
        IF <<r - 1 - (numRows \div 2) - di, q - 1 - (numCols \div 2) - dj>> \in offsets
        THEN 1 ELSE 0]]

\* the live cells of g
LiveCells(g) ==
    {rq \in UNION {{<<r, q>> : q \in DOMAIN g[r]} : r \in DOMAIN g} :
        g[rq[1]][rq[2]] = 1}

\* C15: seedGlider leaves the grid that is dead except for exactly the five
\* glider cells around the centre, seedBlinker the grid that is dead
\* except for exactly the three blinker cells, on any positive dimensions.
C15_SeedsExactPattern ==
    (~crashed /\ numRows > 0 /\ numCols > 0) =>
        /\ lastOp \notin {"createGliderThrew", "createOscillatorThrew"}
        /\ (lastOp = "createGlider"
               => grid = PatternAt(GliderOffsets, 0, 0)
                  /\ Cardinality(LiveCells(grid)) = 5)
        /\ (lastOp = "createOscillator"
               => grid = PatternAt(BlinkerOffsets, 0, 0)
                  /\ Cardinality(LiveCells(grid)) = 3)

\* the horizontal triple through the centre
BlinkerTurnedOffsets == {<<0, -1>>, <<0, 0>>, <<0, 1>>}

\* the rule steps the grid has received in a run that was started once:
\* one by Start itself and one by every timer tick that has been rendered
StepsApplied == 1 + nTicks - Len(updateQueue)

\* a blinker was seeded on the initial grid of at least 3 x 3 cells and the
\* simulation was started, with no other command
BlinkerRun ==
    /\ nCmds = 2
    /\ prevCmd = "createOscillator"
    /\ lastCmd = "start"
    /\ numRows >= 3
    /\ numCols >= 3

\* C16: under the rules 2/3/3 a seeded blinker is, after one tick, exactly
\* the horizontal triple through the centre and, after a second tick,
\* exactly the vertical triple again (and so on with period 2).
C16_BlinkerPeriodTwo ==
    BlinkerRun =>
        /\ ~crashed
        /\ grid = IF StepsApplied % 2 = 1
                  THEN PatternAt(BlinkerTurnedOffsets, 0, 0)
                  ELSE PatternAt(BlinkerOffsets, 0, 0)
        /\ Cardinality(LiveCells(grid)) = 3

\* the blinker is back to the vertical triple after its second tick
C16_Witness ==
    /\ BlinkerRun
    /\ lastOp = "render"
    /\ StepsApplied = 2
    /\ grid = PatternAt(BlinkerOffsets, 0, 0)
    /\ grid # PatternAt(BlinkerTurnedOffsets, 0, 0)

\* a glider was seeded on the initial grid of at least 7 x 7 cells and the
\* simulation was started, with no other command
GliderRun ==
    /\ nCmds = 2
    /\ prevCmd = "createGlider"
    /\ lastCmd = "start"
    /\ numRows >= 7
    /\ numCols >= 7

\* C17: under the rules 2/3/3 a glider seeded on a grid of at least 7 x 7
\* cells is, after four ticks, exactly the same five cells moved by (+1,+1).
C17_GliderMoves ==
    (GliderRun /\ StepsApplied = 4) =>
        /\ ~crashed
        /\ grid = PatternAt(GliderOffsets, 1, 1)
        /\ Cardinality(LiveCells(grid)) = 5

\* the fourth tick of a glider run has been rendered on a 7 x 7 grid
C17_Witness ==
    /\ GliderRun
    /\ StepsApplied = 4
    /\ lastOp = "render"
    /\ numRows = 7
    /\ numCols = 7
    /\ grid # PatternAt(GliderOffsets, 0, 0)

\* every cell of g is alive
AllAlive(g) == \A r \in DOMAIN g : \A q \in DOMAIN g[r] : g[r][q] = 1

\* C18: with birthNum = 0, whatever surviveMin and surviveMax are, one tick
\* on an all-dead grid makes every cell alive, corners and edges included
\* (the tick Start runs, and a timer tick once it is rendered).
C18_BirthZeroFillsGrid ==
    [][(/\ birthNum = 0
        /\ WellFormed(grid, numRows, numCols)
        /\ AllDead(grid)
        /\ \/ lastOp' = "start"
           \/ lastOp' = "render" /\ Len(updateQueue) = 1)
          => /\ ~crashed'
             /\ WellFormed(grid', numRows, numCols)
             /\ AllAlive(grid')]_vars

\* Start has filled a 3 x 3 grid under a rule triple that lets no live cell
\* survive, so the grid it was pressed on was all dead
C18_Witness ==
    /\ lastOp = "start"
    /\ nTicks = 0
    /\ birthNum = 0
    /\ surviveMin = 4
    /\ surviveMax = 3
    /\ numRows = 3
    /\ numCols = 3
    /\ AllAlive(grid)

\* h is g with the cell (i, j) flipped and every other cell as it was
FlippedAt(g, h, i, j) ==
    /\ DOMAIN h = DOMAIN g
    /\ \A r \in DOMAIN g :
          /\ DOMAIN h[r] = DOMAIN g[r]
          /\ \A q \in DOMAIN g[r] :
                IF r - 1 = i /\ q - 1 = j
                THEN h[r][q] \in {0, 1} /\ h[r][q] # g[r][q]
                ELSE h[r][q] = g[r][q]

\* coordinates around and inside the grid that name no cell of it
OutOfRange(g) ==
    {ij \in (-1..Len(g)) \X (-1..numCols) : ~rendered(g, ij[1], ij[2])}

\* C19: a click on a cell, while running or stopped, flips that cell and
\* no other, and leaves RunState, dimensions and rule parameters alone;
\* toggling coordinates that name no cell leaves the grid as it is.
C19_ToggleFlipsOneCell ==
    [][/\ (lastOp' = "handleCellClick" /\ ~crashed')
          => /\ \E cell \in ClickCells :
                   /\ rendered(grid, cell[1], cell[2])
                   /\ FlippedAt(grid, grid', cell[1], cell[2])
             /\ UNCHANGED <<running, numRows, numCols, surviveMin,
                            surviveMax, birthNum>>
       /\ \A ij \in OutOfRange(grid) :
             clickedGrid(grid, ij[1], ij[2]) = grid]_vars

\* a cell was clicked alive while the simulation was running
C19_Witness ==
    /\ lastOp = "handleCellClick"
    /\ running
    /\ ~crashed
    /\ grid[3][3] = 1

\* C20: every tick scheduled after an edit of the speed slider is
\* scheduled with the edited interval: the closure a tick re-arms its timer
\* with carries the current simulationSpeed.
C20_TicksUseCurrentSpeed ==
    (~crashed /\ lastOp = "tick")
        => \A c \in BagToSet(timers) : c.simulationSpeed = simulationSpeed

\* C21: the Start/Pause button pauses a running simulation and starts a
\* stopped one; starting sets RunState to Running, applies one rule step to
\* the grid at once and arms one timer for the following tick; pausing
\* applies no step and arms no timer.
C21_ToggleStartsOrPauses ==
    [][/\ (lastOp' = "start" /\ ~crashed')
          => /\ ~running
             /\ running'
             /\ updateQueue = <<>>
             /\ (WellFormed(grid, numRows, numCols) => grid' = RuleStep(grid))
             /\ timers' = timers (+) SetToBag({runSimulation})
       /\ (lastOp' = "pause" /\ ~crashed')
          => /\ running
             /\ ~running'
             /\ timers' = timers]_vars

\* Start was pressed on a freshly seeded glider and has already moved it
C21_Witness ==
    /\ lastOp = "start"
    /\ prevCmd = "createGlider"
    /\ running
    /\ ~crashed
    /\ BagCardinality(timers) = 1
    /\ SomeAlive(grid)
    /\ grid # PatternAt(GliderOffsets, 0, 0)

\* C22: at most one tick callback is pending in every state; start, pause,
\* start in quick succession leaves one timer chain alive, not two.
C22_OnePendingTick == BagCardinality(timers) <= 1

\* C23: while the simulation is running, every tick that fires issues its
\* step and re-arms exactly one timer, and the render of an issued step
\* applies it (stated on finite runs: a tick whose render fails applies no
\* step, and none is applied after it).
C23_RunKeepsAdvancing ==
    [][/\ (running /\ ~crashed /\ TimerFires)
          => /\ timers' = timers
             /\ Len(updateQueue') = Len(updateQueue) + 1
       /\ (running /\ ~crashed /\ lastOp' = "render")
          => /\ ~crashed'
             /\ updateQueue' = <<>>]_vars

\* a pending setTimeout callback is eventually run by the event loop
FairSpec == Spec /\ WF_vars(TimerFires)

\* C24: once the simulation is stopped and is not started again, every
\* pending timer eventually fires; it issues no step and is not re-armed,
\* so that no timer is left, and from then on the grid changes only by a
\* command that sets it.
C24_StoppedLoopTerminates ==
    /\ [][(~running /\ ~crashed /\ TimerFires)
              => /\ grid' = grid
                 /\ updateQueue' = updateQueue
                 /\ timers' \sqsubseteq timers
                 /\ BagCardinality(timers') = BagCardinality(timers) - 1]_vars
    /\ [][(~running /\ ~running' /\ ~crashed /\ timers = EmptyBag)
              => /\ timers' = EmptyBag
                 /\ (grid' # grid => lastOp' \in GridCommands)]_vars
    /\ ((~running /\ ~crashed) ~> (running \/ timers = EmptyBag))

\* the timer of a run that resize stopped has fired and is gone
C24_Witness ==
    /\ lastCmd = "handleResize"
    /\ lastOp = "tickReturn"
    /\ nTicks = 0
    /\ ~running
    /\ ~crashed
    /\ timers = EmptyBag

\* C25: a click never discards a tick: the grid after a click is the grid
\* with every step issued so far applied, and the clicked cell flipped,
\* also when a step issued by a timer has not been rendered yet.
C25_ToggleKeepsIssuedTick ==
    [][(/\ lastOp' = "handleCellClick"
        /\ ~crashed'
        /\ \A k \in DOMAIN updateQueue : updateQueue[k] = runSimulation)
          => \E cell \in ClickCells :
                FlippedAt(applyUpdates(grid, updateQueue), grid',
                          cell[1], cell[2])]_vars

\* C26: Random replaces the grid by a grid of exactly numRows x numCols
\* cells, each 0 or 1, and leaves RunState, the pending timers, the
\* dimensions and the rule parameters as they were.
C26_RandomKeepsRunState ==
    [][(lastOp' = "handleRandom" /\ ~crashed')
          => /\ WellFormed(grid', numRows, numCols)
             /\ \E alive \in SUBSET RandomCells :
                   LiveCells(grid') = {<<a[1] + 1, a[2] + 1>> : a \in alive}
             /\ UNCHANGED <<running, timers, numRows, numCols, surviveMin,
                            surviveMax, birthNum, simulationSpeed>>]_vars

\* Random was pressed while the simulation was running and drew a live cell
C26_Witness ==
    /\ lastOp = "handleRandom"
    /\ running
    /\ ~crashed
    /\ timers # EmptyBag
    /\ SomeAlive(grid)

====
